---- MODULE Spec2Model ----
(***************************************************************************)
(* A model of the pandemic agent based simulation of src/core/model.py:    *)
(* PabsModel (construction, step, run_model, resistant_susceptible_ratio)  *)
(* and PabsAgent (step and the helpers it calls), on the toroidal          *)
(* MultiGrid the model builds.                                             *)
(*                                                                         *)
(* Probabilities and uniform draws are kept in quarters: One stands for    *)
(* 1.0, Half for 0.5, and a draw of random() is one of 0, 1/4, 1/2, 3/4.   *)
(***************************************************************************)
EXTENDS Integers, Sequences, FiniteSets, TLC

VARIABLES
    cfg,       \* the arguments PabsModel.__init__ was called with
    agents,    \* unique_id -> [state, pos, movable, infected_eta]
    data,      \* datacollector: the sequence of snapshots
    pc,        \* "ready" | "run" | "pass" | "done" | "ValueError"
    n,         \* the argument of run_model
    i,         \* the loop index of run_model
    queue,     \* schedule.step(): the shuffled agents still to be activated
    ret,       \* what the last call of resistant_susceptible_ratio returned
    last,      \* history: the agent activated last, as it was before its step
    infticks,  \* history: per agent, the ticks it began while INFECTED
    episode,   \* history: per agent, the ticks it began while INFECTED since it
               \* last turned INFECTED
    passlog,   \* history: per agent, its state and infected_eta when the pass
               \* began, its state when its own step of the pass began, and
               \* the agent that infected it in the pass
    \* Two runs of one configuration on one stream of random draws:
    runs,      \* run -> [agents, queue, data]
    lag,       \* the draws one run has consumed and the other not yet
    lead,      \* the run that is ahead in the stream
    ppc,       \* "off" | "run" | "pass"
    pi         \* the steps both runs have completed

twin == <<runs, lag, lead, ppc, pi>>

vars == <<cfg, agents, data, pc, n, i, queue, ret, last, infticks, episode, passlog, twin>>

----------------------------------------------------------------------------
(* Bounds and numeric representation *)

MaxTicks == 2

\* The ticks two runs are compared over.
PairTicks == 1

\* The ticks of a run in which an agent is infected a second time.
EpisodeTicks == 3

\* The ticks of a run of three agents.
ChainTicks == 1

One == 4
Half == 2
Draws == 0..(One - 1)

SUSCEPTIBLE == "SUSCEPTIBLE"
INFECTED == "INFECTED"
RESISTANT == "RESISTANT"
DEAD == "DEAD"
State == {SUSCEPTIBLE, INFECTED, RESISTANT, DEAD}

\* The outcomes of `random() < p` over the draws.
Chance(p) == { r < p : r \in Draws }

----------------------------------------------------------------------------
(* Configurations *)

Config(na, w, h, ios, vsc, vcf, rc, grc, mid, dc, mv) ==
    [num_agents |-> na, width |-> w, height |-> h,
     initial_outbreak_size |-> ios, virus_spread_chance |-> vsc,
     virus_check_frequency |-> vcf, recovery_chance |-> rc,
     gain_resistance_chance |-> grc, min_infection_duration |-> mid,
     death_chance |-> dc, movers |-> mv]

\* <<initial_outbreak_size, virus_spread_chance, virus_check_frequency,
\*   recovery_chance, gain_resistance_chance, min_infection_duration,
\*   death_chance, movers>>
Profiles ==
    { <<Half, Half, Half, Half, Half, 0, Half, One>>,
      <<Half, Half, Half, Half, Half, 1, Half, One>>,
      <<One, Half, 0, Half, Half, 0, 0, One>>,
      <<Half, One, Half, Half, Half, 0, 0, 0>>,
      <<Half, One, Half, Half, Half, 1, 0, 0>>,
      <<One, Half, One, One, 0, 0, Half, One>> }

\* <<num_agents, width, height>>: up to two agents on the small grids, where
\* the wrapped neighbourhoods coincide, and one agent on the 3 x 3 grid.
Worlds ==
    ((0..2) \X {1} \X {1}) \cup ((1..2) \X {1} \X {3}) \cup ((1..2) \X {2} \X {2})
        \cup {<<1, 3, 3>>}

Configs ==
    { Config(w[1], w[2], w[3], p[1], p[2], p[3], p[4], p[5], p[6], p[7], p[8]) :
        w \in Worlds, p \in Profiles }

\* Arguments outside their domain: a negative agent count or grid dimension,
\* a probability below 0 or above 1.
BadProfiles ==
    { <<One + 1, Half, Half, Half, Half, 0, Half, One>>,
      <<Half, -1, Half, Half, Half, 0, Half, One>>,
      <<Half, Half, Half, Half, Half, 0, One + 1, One>>,
      <<Half, Half, Half, One + 1, -1, 0, Half, -1>> }

BadWorlds == { <<-1, 1, 1>>, <<-1, -1, 1>>, <<1, -1, 1>>, <<2, 1, -1>> }

\* Three immobile agents in the one cell of a 1 x 1 grid.
PairConfigs == { Config(3, 1, 1, Half, Half, 0, Half, Half, 0, Half, 0) }

\* Two immobile agents that cannot die, with a minimum infection duration.
EpisodeConfigs ==
    { Config(2, w, w, Half, Half, Half, Half, Half, 1, 0, 0) : w \in 1..2 }

\* Three immobile agents in one cell, or in the cells of a row of three.
ChainConfigs ==
    { Config(3, 1, h, Half, Half, Half, Half, Half, 0, Half, 0) : h \in {1, 3} }

\* Two agents, movable or not, on a grid 4 cells wide and 3 high, where a
\* cell is not its own neighbour and some cells are out of reach; every
\* susceptible neighbour is infected.
WideConfigs == { Config(2, 3, 4, Half, One, Half, Half, Half, 0, Half, Half) }

AnyConfigs ==
    { Config(w[1], w[2], w[3], p[1], p[2], p[3], p[4], p[5], p[6], p[7], p[8]) :
        w \in BadWorlds \cup {<<2, 1, 1>>, <<1, 2, 2>>},
        p \in BadProfiles \cup {<<Half, Half, Half, Half, Half, 0, Half, One>>} }

----------------------------------------------------------------------------
(* The grid: MultiGrid(height, width, True) *)

\* MultiGrid's first parameter is the grid's width: the call passes height.
grid_width(c) == c.height
grid_height(c) == c.width

torus_adj(c, pos) == <<pos[1] % grid_width(c), pos[2] % grid_height(c)>>

Offsets == { d \in (-1..1) \X (-1..1) : d # <<0, 0>> }

\* get_neighborhood(pos, moore=True, include_center=False): the wrapped
\* coordinates of the 8 offsets around pos.
get_neighborhood_center(c, pos) ==
    { torus_adj(c, <<pos[1] + d[1], pos[2] + d[2]>>) : d \in (-1..1) \X (-1..1) }

get_neighborhood(c, pos) ==
    { torus_adj(c, <<pos[1] + d[1], pos[2] + d[2]>>) : d \in Offsets }

get_neighbors_center(c, ags, pos) ==
    { b \in DOMAIN ags : ags[b].pos \in get_neighborhood_center(c, pos) }

\* get_neighbors(pos, moore=True, include_center=False): the agents in the
\* cells of the neighborhood.
get_neighbors(c, ags, pos) ==
    { b \in DOMAIN ags : ags[b].pos \in get_neighborhood(c, pos) }

----------------------------------------------------------------------------
(* Metrics *)

number_state(ags, state) == Cardinality({ a \in DOMAIN ags : ags[a].state = state })

number_infected(ags) == number_state(ags, INFECTED)
number_susceptible(ags) == number_state(ags, SUSCEPTIBLE)
number_resistant(ags) == number_state(ags, RESISTANT)

number_dead_resistant(ags) == number_state(ags, RESISTANT)

number_dead(ags) == number_state(ags, DEAD)

number_total(ags) == number_dead(ags) + number_resistant(ags) + number_infected(ags)

collect(ags) ==
    [Infected |-> number_infected(ags), Susceptible |-> number_susceptible(ags),
     Resistant |-> number_resistant(ags), Dead |-> number_dead(ags),
     Total_cases |-> number_total(ags)]

Inf == [inf |-> TRUE, num |-> 0, den |-> 0]

resistant_susceptible_ratio_no_except(ags) ==
    [inf |-> FALSE, num |-> number_state(ags, RESISTANT),
                    den |-> number_state(ags, SUSCEPTIBLE)]

\* R / S as the fraction num/den; ZeroDivisionError gives math.inf.
resistant_susceptible_ratio(ags) ==
    IF number_state(ags, SUSCEPTIBLE) = 0
    THEN Inf
    ELSE [inf |-> FALSE, num |-> number_state(ags, RESISTANT),
                         den |-> number_state(ags, SUSCEPTIBLE)]

----------------------------------------------------------------------------
(* PabsAgent *)

can_move_ignoring_death(ag) == ag.movable

can_move(ag) == ag.movable /\ ag.state # DEAD

\* The positions random.choice(possible_steps) may return.
possible_steps(c, ags, a) ==
    IF can_move(ags[a]) THEN get_neighborhood(c, ags[a].pos) ELSE {ags[a].pos}

move(c, ags, a, new_position) ==
    IF can_move(ags[a]) THEN [ags EXCEPT ![a].pos = new_position] ELSE ags

DeathOutcomesLe(c) == { r1 <= Half /\ r2 <= c.death_chance : r1 \in Draws, r2 \in Draws }

\* The outcomes of `random() <= 0.5 and random() < death_chance`.
DeathOutcomes(c) == { r1 <= Half /\ r2 < c.death_chance : r1 \in Draws, r2 \in Draws }

try_to_survive(ags, a, dies) ==
    IF dies THEN [ags EXCEPT ![a].state = DEAD] ELSE ags

susceptible_neighbors(c, ags, a) ==
    { b \in get_neighbors(c, ags, ags[a].pos) : ags[b].state = SUSCEPTIBLE }

try_to_infect_neighbors_inverted(c, ags, a, hit) ==
    [b \in DOMAIN ags |->
        IF b \in susceptible_neighbors(c, ags, a) /\ ~hit[b]
        THEN [ags[b] EXCEPT !.state = INFECTED]
        ELSE ags[b]]

\* hit[b]: the outcome of `random() < virus_spread_chance` drawn for b.
try_to_infect_neighbors(c, ags, a, hit) ==
    [b \in DOMAIN ags |->
        IF b \in susceptible_neighbors(c, ags, a) /\ hit[b]
        THEN [ags[b] EXCEPT !.state = INFECTED]
        ELSE ags[b]]

try_gain_resistance(ags, a, gain) ==
    IF gain THEN [ags EXCEPT ![a].state = RESISTANT] ELSE ags

try_remove_infection_ge(c, ags, a, rec, gain) ==
    IF ags[a].infected_eta >= c.min_infection_duration
    THEN IF rec
         THEN try_gain_resistance([ags EXCEPT ![a].state = SUSCEPTIBLE], a, gain)
         ELSE [ags EXCEPT ![a].state = INFECTED]
    ELSE ags

try_remove_infection_keeps_infected(c, ags, a, rec, gain) ==
    IF ags[a].infected_eta > c.min_infection_duration
    THEN IF rec
         THEN try_gain_resistance(ags, a, gain)
         ELSE [ags EXCEPT ![a].state = INFECTED]
    ELSE ags

try_remove_infection(c, ags, a, rec, gain) ==
    IF ags[a].infected_eta > c.min_infection_duration
    THEN IF rec
         THEN try_gain_resistance([ags EXCEPT ![a].state = SUSCEPTIBLE], a, gain)
         ELSE [ags EXCEPT ![a].state = INFECTED]
    ELSE ags

try_check_situation_unguarded(c, ags, a, chk, rec, gain) ==
    IF chk THEN try_remove_infection(c, ags, a, rec, gain) ELSE ags

try_check_situation(c, ags, a, chk, rec, gain) ==
    IF chk
    THEN IF ags[a].state = INFECTED
         THEN try_remove_infection(c, ags, a, rec, gain)
         ELSE ags
    ELSE ags

progress_infects_when_dead(c, ags, a, dies, hit, chk, rec, gain) ==
    IF ags[a].state = INFECTED
    THEN LET e == [ags EXCEPT ![a].infected_eta = @ + 1]
             s == try_to_survive(e, a, dies)
             t == try_to_infect_neighbors(c, s, a,
                      IF ~dies THEN hit ELSE [b \in DOMAIN ags |-> TRUE])
         IN  try_check_situation(c, t, a, chk, rec, gain)
    ELSE ags

progress_eta_if_survives(c, ags, a, dies, hit, chk, rec, gain) ==
    IF ags[a].state = INFECTED
    THEN LET s == try_to_survive(ags, a, dies)
             e == IF ~dies THEN [s EXCEPT ![a].infected_eta = @ + 1] ELSE s
             t == IF ~dies THEN try_to_infect_neighbors(c, e, a, hit) ELSE e
         IN  try_check_situation(c, t, a, chk, rec, gain)
    ELSE ags

progress_eta_any_state(c, ags, a, dies, hit, chk, rec, gain) ==
    LET e == [ags EXCEPT ![a].infected_eta = @ + 1]
        s == try_to_survive(e, a, dies)
        t == IF ~dies THEN try_to_infect_neighbors(c, s, a, hit) ELSE s
    IN  IF ags[a].state = INFECTED
        THEN try_check_situation(c, t, a, chk, rec, gain)
        ELSE e

\* The progression decided by the agent's state when the pass began.
progress_isolated(c, ags, a, dies, hit, chk, rec, gain) ==
    IF ags[a].state = INFECTED /\ passlog[a].state = INFECTED
    THEN LET e == [ags EXCEPT ![a].infected_eta = @ + 1]
             s == try_to_survive(e, a, dies)
             t == IF ~dies THEN try_to_infect_neighbors(c, s, a, hit) ELSE s
         IN  try_check_situation(c, t, a, chk, rec, gain)
    ELSE ags

\* What PabsAgent.step does after move().
progress(c, ags, a, dies, hit, chk, rec, gain) ==
    IF ags[a].state = INFECTED
    THEN LET e == [ags EXCEPT ![a].infected_eta = @ + 1]
             s == try_to_survive(e, a, dies)
             t == IF ~dies THEN try_to_infect_neighbors(c, s, a, hit) ELSE s
         IN  try_check_situation(c, t, a, chk, rec, gain)
    ELSE ags

----------------------------------------------------------------------------
(* PabsModel.__init__ *)

\* range(num_agents)
AgentIds(c) == 0..(c.num_agents - 1)

clamp(ios) == IF ios <= One THEN ios ELSE One

\* The states `rn <= initial_outbreak_size` gives over the draws.
InitialStates(c) ==
    { IF rn <= clamp(c.initial_outbreak_size) THEN INFECTED ELSE SUSCEPTIBLE :
        rn \in Draws }

\* randrange(grid.width), randrange(grid.height)
Cells(c) == (0..(grid_width(c) - 1)) \X (0..(grid_height(c) - 1))

NewAgents(c) ==
    [state : InitialStates(c), pos : Cells(c), movable : Chance(c.movers),
     infected_eta : {0}]

NoLast == [id |-> -1, state |-> "NONE", died |-> FALSE, checked |-> FALSE]
NoRet == [inf |-> FALSE, num |-> -1, den |-> -1]

\* Between passes: every agent as it is, none activated.
NoPass(ags) ==
    [a \in DOMAIN ags |->
        [state |-> ags[a].state, eta |-> ags[a].infected_eta, acted |-> "NONE",
         by |-> -1]]

\* randrange raises ValueError on an empty range.
RandrangeRaises(c) ==
    c.num_agents > 0 /\ (grid_width(c) <= 0 \/ grid_height(c) <= 0)

Construct(c) ==
    /\ cfg = c
    /\ n = 0 /\ i = 0 /\ queue = <<>> /\ ret = NoRet /\ last = NoLast
    /\ IF RandrangeRaises(c)
       THEN /\ pc = "ValueError"
            /\ agents = <<>>
            /\ infticks = <<>>
            /\ episode = <<>>
            /\ passlog = <<>>
            /\ data = <<>>
       ELSE /\ pc = "ready"
            /\ agents \in [AgentIds(c) -> NewAgents(c)]
            /\ infticks = [a \in AgentIds(c) |-> 0]
            /\ episode = [a \in AgentIds(c) |-> 0]
            /\ passlog = NoPass(agents)
            /\ data = <<collect(agents)>>

\* A single run: no second run beside it.
TwinOff == runs = <<>> /\ lag = <<>> /\ lead = 1 /\ ppc = "off" /\ pi = 0

Init == TwinOff /\ \E c \in Configs : Construct(c)

----------------------------------------------------------------------------
(* run_model, step, the scheduler pass *)

range_exhausted_late(k, m) == k > m

\* `for i in range(n)` ends when i reaches n.
range_exhausted(k, m) == k >= m

RunModel ==
    /\ pc = "ready"
    /\ \E m \in 0..MaxTicks : n' = m
    /\ i' = 0
    /\ pc' = "run"
    /\ ret' = NoRet
    /\ UNCHANGED <<cfg, agents, data, queue, last, infticks, episode, passlog, twin>>

Perms(S) == { q \in [1..Cardinality(S) -> S] : \A x \in S : \E k \in DOMAIN q : q[k] = x }

\* step(): schedule.step() shuffles the agents.
StepBegin ==
    /\ pc = "run" /\ ~range_exhausted(i, n)
    /\ \E q \in Perms(DOMAIN agents) : queue' = q
    /\ pc' = "pass"
    /\ UNCHANGED <<cfg, agents, data, n, i, ret, last, infticks, episode, passlog, twin>>

\* One agent's step().
AgentStep ==
    /\ pc = "pass" /\ queue # <<>>
    /\ LET a == Head(queue) IN
       /\ \E new_position \in possible_steps(cfg, agents, a) :
          LET m == move(cfg, agents, a, new_position) IN
          \E dies \in (IF m[a].state = INFECTED THEN DeathOutcomes(cfg) ELSE {FALSE}) :
          \E hit \in [(IF m[a].state = INFECTED /\ ~dies
                       THEN susceptible_neighbors(cfg, m, a) ELSE {})
                      -> Chance(cfg.virus_spread_chance)] :
          \E chk \in (IF m[a].state = INFECTED THEN Chance(cfg.virus_check_frequency)
                      ELSE {FALSE}) :
          \E rec \in (IF chk THEN Chance(cfg.recovery_chance) ELSE {FALSE}) :
          \E gain \in (IF rec THEN Chance(cfg.gain_resistance_chance) ELSE {FALSE}) :
             /\ agents' = progress(cfg, m, a, dies, hit, chk, rec, gain)
             /\ last' = [id |-> a, state |-> agents[a].state, died |-> dies,
                         checked |-> chk]
       /\ infticks' = [infticks EXCEPT ![a] = @ + (IF agents[a].state = INFECTED THEN 1 ELSE 0)]
       /\ episode' = [b \in DOMAIN agents |->
                        IF b = a
                        THEN episode[b] + (IF agents[a].state = INFECTED THEN 1 ELSE 0)
                        ELSE IF agents[b].state # INFECTED /\ agents'[b].state = INFECTED
                             THEN 0
                             ELSE episode[b]]
       /\ passlog' = [b \in DOMAIN agents |->
                        IF b = a
                        THEN [passlog[b] EXCEPT !.acted = agents[a].state]
                        ELSE IF agents[b].state # INFECTED /\ agents'[b].state = INFECTED
                             THEN [passlog[b] EXCEPT !.by = a]
                             ELSE passlog[b]]
       /\ queue' = Tail(queue)
    /\ UNCHANGED <<cfg, data, pc, n, i, ret, twin>>

\* step(): datacollector.collect(self) after the pass; back in run_model's loop.
Collect ==
    /\ pc = "pass" /\ queue = <<>>
    /\ data' = Append(data, collect(agents))
    /\ i' = i + 1
    /\ pc' = "run"
    /\ passlog' = NoPass(agents)
    /\ UNCHANGED <<cfg, agents, n, queue, ret, last, infticks, episode, twin>>

RunReturn ==
    /\ pc = "run" /\ range_exhausted(i, n)
    /\ pc' = "done"
    /\ UNCHANGED <<cfg, agents, data, n, i, queue, ret, last, infticks, episode, passlog, twin>>

\* resistant_susceptible_ratio(), called between steps.
Ratio ==
    /\ pc \in {"ready", "done"}
    /\ ret' = resistant_susceptible_ratio(agents)
    /\ UNCHANGED <<cfg, agents, data, pc, n, i, queue, last, infticks, episode, passlog, twin>>

Next ==
    \/ RunModel
    \/ StepBegin
    \/ AgentStep
    \/ Collect
    \/ RunReturn
    \/ Ratio

Spec == Init /\ [][Next]_vars

\* A longer run of a population in which agents recover and are infected
\* again.
InitEpisode == TwinOff /\ \E c \in EpisodeConfigs : Construct(c)

RunModelEpisode ==
    /\ pc = "ready"
    /\ \E m \in 0..EpisodeTicks : n' = m
    /\ i' = 0
    /\ pc' = "run"
    /\ ret' = NoRet
    /\ UNCHANGED <<cfg, agents, data, queue, last, infticks, episode, passlog, twin>>

NextEpisode ==
    \/ RunModelEpisode
    \/ StepBegin
    \/ AgentStep
    \/ Collect
    \/ RunReturn
    \/ Ratio

SpecEpisode == InitEpisode /\ [][NextEpisode]_vars

\* Runs of a population of three, where an infection can pass on twice.
InitChain == TwinOff /\ \E c \in ChainConfigs : Construct(c)

RunModelChain ==
    /\ pc = "ready"
    /\ \E m \in 0..ChainTicks : n' = m
    /\ i' = 0
    /\ pc' = "run"
    /\ ret' = NoRet
    /\ UNCHANGED <<cfg, agents, data, queue, last, infticks, episode, passlog, twin>>

NextChain ==
    \/ RunModelChain
    \/ StepBegin
    \/ AgentStep
    \/ Collect
    \/ RunReturn
    \/ Ratio

SpecChain == InitChain /\ [][NextChain]_vars

\* Runs of two agents on a grid where a cell is not its own neighbour.
InitWide == TwinOff /\ \E c \in WideConfigs : Construct(c)

SpecWide == InitWide /\ [][NextChain]_vars

\* The same program constructed from arguments outside their domain too.
InitAnyConfig == TwinOff /\ \E c \in AnyConfigs : Construct(c)

SpecAnyConfig == InitAnyConfig /\ [][Next]_vars

----------------------------------------------------------------------------
(* Two runs of the same configuration fed the same random draws.  Each call *)
(* of the random source (random(), choice, one swap of shuffle) takes the   *)
(* next draw of the stream; a draw v gives random() = v/4 and an index      *)
(* v mod k below k.                                                         *)

\* The offsets in the order get_neighborhood walks them: dy outside, dx inside.
OffsetSeq ==
    << <<-1, -1>>, <<0, -1>>, <<1, -1>>, <<-1, 0>>, <<1, 0>>,
       <<-1, 1>>, <<0, 1>>, <<1, 1>> >>

RECURSIVE Dedup(_)
Dedup(s) ==
    IF s = <<>> THEN <<>>
    ELSE LET front == Dedup(SubSeq(s, 1, Len(s) - 1))
             x == s[Len(s)]
         IN  IF \E k \in DOMAIN front : front[k] = x THEN front ELSE Append(front, x)

\* get_neighborhood as the list random.choice indexes: duplicates dropped.
neighborhood_list(c, pos) ==
    Dedup([k \in DOMAIN OffsetSeq |->
             torus_adj(c, <<pos[1] + OffsetSeq[k][1], pos[2] + OffsetSeq[k][2]>>)])

IndexOf(s, x) == CHOOSE k \in DOMAIN s : s[k] = x

\* The order in which get_neighbors yields the susceptible neighbours: cell
\* after cell of the neighbourhood; a cell's content is a set, iterated in no
\* specified order, here the order prio of this iteration.
neighbor_order(c, ags, a, prio) ==
    LET sus == susceptible_neighbors(c, ags, a)
        cells == neighborhood_list(c, ags[a].pos)
        Before(x, y) ==
            \/ IndexOf(cells, ags[x].pos) < IndexOf(cells, ags[y].pos)
            \/ /\ ags[x].pos = ags[y].pos
               /\ IndexOf(prio, x) < IndexOf(prio, y)
    IN  CHOOSE o \in Perms(sus) :
            \A j \in DOMAIN o, k \in DOMAIN o : j < k => Before(o[j], o[k])

\* The orders a set of susceptible agents can be iterated in.
Prios(ags) == Perms({ b \in DOMAIN ags : ags[b].state = SUSCEPTIBLE })

\* The values the draw after k draws can have: av holds the draws of the
\* stream already fixed (the other run took them), the rest are free.
Site(av, k) == IF k < Len(av) THEN {av[k + 1]} ELSE Draws

\* The sequences of len draws taken after k draws.
DrawSeqsFrom(av, k, len) ==
    { q \in [1..len -> Draws] : \A j \in 1..len : q[j] \in Site(av, k + j - 1) }

\* try_check_situation, drawing: one draw for the check-in, one for the
\* recovery if it is tried, one for the resistance if the agent recovered.
\* Each result: the agents after the step and the draws the step took.
check_results(c, ags, a, cons, av) ==
    UNION {
        LET chk == v < c.virus_check_frequency
            cons1 == Append(cons, v)
        IN  IF /\ chk /\ ags[a].state = INFECTED
               /\ ags[a].infected_eta > c.min_infection_duration
            THEN UNION {
                   LET rec == w < c.recovery_chance
                       cons2 == Append(cons1, w)
                   IN  IF rec
                       THEN { [agents |-> try_check_situation(c, ags, a, TRUE, TRUE,
                                             g < c.gain_resistance_chance),
                               cons |-> Append(cons2, g)] :
                                g \in Site(av, Len(cons2)) }
                       ELSE { [agents |-> try_check_situation(c, ags, a, TRUE, FALSE, FALSE),
                               cons |-> cons2] } :
                   w \in Site(av, Len(cons1)) }
            ELSE { [agents |-> try_check_situation(c, ags, a, chk, FALSE, FALSE),
                    cons |-> cons1] } :
        v \in Site(av, Len(cons)) }

\* try_to_infect_neighbors, drawing once per susceptible neighbour in the
\* order of the list, then the check-in.
infect_results(c, ags, a, cons, av, prio) ==
    LET o == neighbor_order(c, ags, a, prio)
    IN  UNION {
          check_results(c,
              try_to_infect_neighbors(c, ags, a,
                  [b \in DOMAIN ags |->
                      /\ \E k \in DOMAIN o : o[k] = b
                      /\ q[IndexOf(o, b)] < c.virus_spread_chance]),
              a, cons \o q, av) :
          q \in DrawSeqsFrom(av, Len(cons), Len(o)) }

\* try_to_survive, drawing: the second draw is taken only if the first is
\* at most 0.5.
survive_results(c, ags, a, cons, av, prio) ==
    UNION {
        IF r1 <= Half
        THEN UNION {
               LET dies == r2 < c.death_chance
                   s == try_to_survive(ags, a, dies)
               IN  IF dies
                   THEN check_results(c, s, a, cons \o <<r1, r2>>, av)
                   ELSE infect_results(c, s, a, cons \o <<r1, r2>>, av, prio) :
               r2 \in Site(av, Len(cons) + 1) }
        ELSE infect_results(c, ags, a, Append(cons, r1), av, prio) :
        r1 \in Site(av, Len(cons)) }

\* PabsAgent.step, drawing in the order of the code.
step_results(c, ags, a, av, prio) ==
    LET cells == neighborhood_list(c, ags[a].pos)
        moved == IF can_move(ags[a])
                 THEN { [agents |-> move(c, ags, a, cells[(v % Len(cells)) + 1]),
                         cons |-> <<v>>] : v \in Site(av, 0) }
                 ELSE { [agents |-> ags, cons |-> <<>>] }
    IN  UNION {
          IF m.agents[a].state = INFECTED
          THEN survive_results(c, [m.agents EXCEPT ![a].infected_eta = @ + 1],
                               a, m.cons, av, prio)
          ELSE {m} :
          m \in moved }

\* random.shuffle: for i from the last index down to 1, swap x[i] with
\* x[j], j drawn below i + 1 (0-based); len(x) - 1 draws.
RECURSIVE shuffle(_, _, _)
shuffle(x, ds, k) ==
    IF Len(x) - k < 2 THEN x
    ELSE LET hi == Len(x) - k
             j == (ds[k + 1] % hi) + 1
         IN  shuffle([x EXCEPT ![hi] = x[j], ![j] = x[hi]], ds, k + 1)

\* list(self._agents.keys()): the agents in the order they were added.
agent_keys(ags) == [k \in 1..Cardinality(DOMAIN ags) |-> k - 1]

shuffle_results(ags, av) ==
    LET x == agent_keys(ags)
        len == IF Len(x) > 0 THEN Len(x) - 1 ELSE 0
    IN  { [queue |-> shuffle(x, q, 0), cons |-> q] : q \in DrawSeqsFrom(av, 0, len) }

\* The run behind in the stream (run 2 when both are at the same place).
Behind == 3 - lead

\* The draws a run took beyond those that were lagging.
Beyond(cons) == SubSeq(cons, Len(lag) + 1, Len(cons))

\* The stream after the run behind took consL (from lag on) and the run
\* ahead consH (from the end of lag on).
Advance(consL, consH) ==
    LET eL == Len(consL)
        eH == Len(lag) + Len(consH)
        all == IF eL >= eH THEN (IF eL >= Len(lag) THEN consL ELSE lag)
               ELSE lag \o consH
    IN  /\ lag' = IF eH >= eL THEN SubSeq(all, eL + 1, eH) ELSE SubSeq(all, eH + 1, eL)
        /\ lead' = IF eH > eL THEN lead ELSE IF eL > eH THEN Behind ELSE 1

PairConstruct(c) ==
    /\ Construct(c)
    /\ runs = [r \in 1..2 |-> [agents |-> agents, queue |-> <<>>, data |-> data]]
    /\ lag = <<>> /\ lead = 1 /\ ppc = "run" /\ pi = 0

\* Both runs enter step(): each shuffles its agents.
PairStepBegin ==
    /\ ppc = "run" /\ pi < PairTicks
    /\ \E resL \in shuffle_results(runs[Behind].agents, lag) :
       \E resH \in shuffle_results(runs[lead].agents, Beyond(resL.cons)) :
          /\ runs' = [r \in 1..2 |->
                        [runs[r] EXCEPT
                           !.queue = IF r = lead THEN resH.queue ELSE resL.queue]]
          /\ Advance(resL.cons, resH.cons)
    /\ ppc' = "pass"
    /\ UNCHANGED <<cfg, agents, data, pc, n, i, queue, ret, last, infticks, episode, passlog, pi>>

\* Both runs activate the next agent of their pass.
PairAgentStep ==
    /\ ppc = "pass" /\ runs[1].queue # <<>>
    /\ \E pL \in Prios(runs[Behind].agents), pH \in Prios(runs[lead].agents) :
       \E resL \in step_results(cfg, runs[Behind].agents, Head(runs[Behind].queue),
                                lag, pL) :
       \E resH \in step_results(cfg, runs[lead].agents, Head(runs[lead].queue),
                                Beyond(resL.cons), pH) :
          /\ runs' = [r \in 1..2 |->
                        [runs[r] EXCEPT
                           !.agents = IF r = lead THEN resH.agents ELSE resL.agents,
                           !.queue = Tail(@)]]
          /\ Advance(resL.cons, resH.cons)
    /\ UNCHANGED <<cfg, agents, data, pc, n, i, queue, ret, last, infticks, episode, passlog, ppc, pi>>

\* Both runs finish the pass and collect.
PairCollect ==
    /\ ppc = "pass" /\ runs[1].queue = <<>>
    /\ runs' = [r \in 1..2 |->
                  [runs[r] EXCEPT !.data = Append(@, collect(runs[r].agents))]]
    /\ pi' = pi + 1
    /\ ppc' = "run"
    /\ UNCHANGED <<cfg, agents, data, pc, n, i, queue, ret, last, infticks, episode, passlog, lag, lead>>

PairNext ==
    \/ PairStepBegin
    \/ PairAgentStep
    \/ PairCollect

PairInit == \E c \in PairConfigs : PairConstruct(c)

SpecPair == PairInit /\ [][PairNext]_vars

----------------------------------------------------------------------------
(* Properties *)

Count(state) == Cardinality({ a \in DOMAIN agents : agents[a].state = state })

\* The agent whose step() the next AgentStep runs.
Acting == Head(queue)
InAgentStep == pc = "pass" /\ queue # <<>>

\* C1: every snapshot's Infected + Susceptible + Resistant + Dead equals the
\* configured agent count, and the agents are those created at initialization.
C1_PopulationConservation ==
    /\ DOMAIN agents = 0..(cfg.num_agents - 1)
    /\ \A k \in DOMAIN data :
          data[k].Infected + data[k].Susceptible + data[k].Resistant + data[k].Dead
              = cfg.num_agents

C1_Witness ==
    /\ cfg.num_agents = 2 /\ Len(data) = 3
    /\ data[2].Dead = 1 /\ data[3].Resistant = 1

\* C2: a DEAD agent stays DEAD and a RESISTANT agent stays RESISTANT across
\* every step, and an agent whose survival check failed is DEAD when its
\* step() returns, whatever the check-in of that tick drew.
C2_Absorbing ==
    /\ [](last.died => agents[last.id].state = DEAD)
    /\ [][\A a \in DOMAIN agents :
            /\ agents[a].state = DEAD => agents'[a].state = DEAD
            /\ agents[a].state = RESISTANT => agents'[a].state = RESISTANT]_vars

\* An agent died in a tick whose check-in draw succeeded with the minimum
\* duration passed, next to a RESISTANT agent.
C2_Witness ==
    /\ last.died /\ last.checked
    /\ agents[last.id].infected_eta > cfg.min_infection_duration
    /\ \E b \in DOMAIN agents : agents[b].state = RESISTANT

\* The 8 toroidal Moore neighbours of pos on the grid as built.
Moore8(pos) ==
    { q \in Cells(cfg) :
        \E dx \in -1..1, dy \in -1..1 :
            /\ ~(dx = 0 /\ dy = 0)
            /\ q[1] = (pos[1] + dx) % grid_width(cfg)
            /\ q[2] = (pos[2] + dy) % grid_height(cfg) }

\* C3 as stated: a movable agent that is not DEAD moves on each tick to one
\* of the 8 toroidal Moore neighbours of its position, never to its own
\* position, on every grid.
C3_AlwaysLeavesCell ==
    [][InAgentStep /\ agents[Acting].movable /\ agents[Acting].state # DEAD
         => /\ agents'[Acting].pos \in Moore8(agents[Acting].pos)
            /\ agents'[Acting].pos # agents[Acting].pos]_vars

\* C3 amended: the new position is one of the 8 wrapped Moore candidates,
\* and differs from the prior position when the grid is at least 2 cells
\* wide and high.
C3_MovesToMooreNeighbour ==
    [][InAgentStep /\ agents[Acting].movable /\ agents[Acting].state # DEAD
         => /\ agents'[Acting].pos \in Moore8(agents[Acting].pos)
            /\ (grid_width(cfg) >= 2 /\ grid_height(cfg) >= 2
                  => agents'[Acting].pos # agents[Acting].pos)]_vars

C3_Witness ==
    /\ last.id # -1 /\ last.state # DEAD /\ agents[last.id].movable
    /\ grid_width(cfg) >= 2 /\ grid_height(cfg) >= 2
    /\ i = 1

\* C4: across every step the position of an agent that is DEAD or not
\* movable is unchanged (and so is the movable flag).
C4_DeadOrImmobileStays ==
    [][\A a \in DOMAIN agents :
          /\ agents'[a].movable = agents[a].movable
          /\ (agents[a].state = DEAD \/ ~agents[a].movable)
                => agents'[a].pos = agents[a].pos]_vars

\* A movable agent that was DEAD has been activated on a grid with other
\* cells to go to.
C4_Witness ==
    /\ last.id # -1 /\ last.state = DEAD /\ agents[last.id].movable
    /\ grid_width(cfg) >= 2

InDomain(p) == 0 <= p /\ p <= One

ValidConfig(c) ==
    /\ c.num_agents >= 0 /\ c.width >= 0 /\ c.height >= 0
    /\ InDomain(c.initial_outbreak_size) /\ InDomain(c.virus_spread_chance)
    /\ InDomain(c.virus_check_frequency) /\ InDomain(c.recovery_chance)
    /\ InDomain(c.gain_resistance_chance) /\ InDomain(c.death_chance)
    /\ InDomain(c.movers)

\* C5: constructing the model from an invalid configuration ends in an
\* error: no snapshot is taken and no run takes place.
C5_InvalidConfigRejected ==
    ~ValidConfig(cfg) => pc = "ValueError" /\ data = <<>>

\* C6: two runs of one configuration fed the same draws hold the same
\* snapshots after every tick.
C6_Determinism ==
    ppc = "run" => runs[1].data = runs[2].data

\* C7: one snapshot after initialization, one more per step() taken when the
\* whole pass is over, n + 1 when run_model(n) returns, and no snapshot
\* already appended changes.
C7_SnapshotPerTick ==
    /\ Len(data) = 1
    /\ [](Len(data) = 1 + i)
    /\ [](pc = "done" => i = n /\ Len(data) = n + 1)
    /\ [][\/ data' = data
          \/ /\ pc = "pass" /\ queue = <<>>
             /\ Len(data') = Len(data) + 1
             /\ SubSeq(data', 1, Len(data)) = data
             /\ data'[Len(data')].Infected = Count(INFECTED)
             /\ data'[Len(data')].Dead = Count(DEAD)]_vars

C7_Witness == pc = "done" /\ n = 2 /\ Len(data) = 3 /\ data[2] # data[3]

\* C8: the ratio is +infinity exactly when no agent is SUSCEPTIBLE, else the
\* fraction count(RESISTANT) / count(SUSCEPTIBLE), and the call leaves the
\* agents and the snapshots alone.
C8_Ratio ==
    /\ [](ret # NoRet =>
            /\ ret.inf <=> Count(SUSCEPTIBLE) = 0
            /\ ~ret.inf => /\ ret.num = Count(RESISTANT)
                           /\ ret.den = Count(SUSCEPTIBLE)
                           /\ ret.num >= 0 /\ ret.den > 0)
    /\ [][ret' # ret /\ ret' # NoRet => agents' = agents /\ data' = data]_vars

C8_Witness ==
    /\ ret # NoRet /\ ret.inf /\ pc = "done"
    /\ Count(RESISTANT) = 1 /\ cfg.num_agents = 2

\* C9: every agent's position lies inside the configured width and height.
C9_PositionInConfiguredGrid ==
    \A a \in DOMAIN agents :
        /\ 0 <= agents[a].pos[1] /\ agents[a].pos[1] < cfg.width
        /\ 0 <= agents[a].pos[2] /\ agents[a].pos[2] < cfg.height

ScenarioA(c) == c.death_chance = 0 /\ c.virus_check_frequency = 0

\* C10: with initial_outbreak_size 1.0 every agent starts INFECTED; with
\* death_chance 0 and virus_check_frequency 0 an INFECTED agent stays
\* INFECTED and its infected_eta counts the ticks it ran while infected; one
\* agent after run_model(1) gives Infected 1, the other counts 0, eta 1.
C10_ScenarioA ==
    /\ [](cfg.initial_outbreak_size = One =>
            /\ data[1].Infected = cfg.num_agents
            /\ pc = "ready" => \A a \in DOMAIN agents : agents[a].state = INFECTED)
    /\ [](ScenarioA(cfg) =>
            \A a \in DOMAIN agents : agents[a].infected_eta = infticks[a])
    /\ [][ScenarioA(cfg) =>
            \A a \in DOMAIN agents :
                agents[a].state = INFECTED => agents'[a].state = INFECTED]_vars
    /\ [](/\ ScenarioA(cfg) /\ cfg.initial_outbreak_size = One
          /\ cfg.num_agents = 1 /\ pc = "done" /\ n = 1
          => /\ data[2] = [Infected |-> 1, Susceptible |-> 0, Resistant |-> 0,
                           Dead |-> 0, Total_cases |-> 1]
             /\ agents[0].state = INFECTED
             /\ agents[0].infected_eta = 1)

C10_Witness ==
    /\ ScenarioA(cfg) /\ cfg.initial_outbreak_size = One
    /\ cfg.num_agents = 2 /\ pc = "done" /\ n = 2
    /\ \A a \in DOMAIN agents : agents[a].infected_eta = 2

\* Scenario B as constructed: two immobile agents in Moore-adjacent cells, one
\* INFECTED and one SUSCEPTIBLE, virus_spread_chance 1.0, death_chance 0.
ScenarioB ==
    /\ cfg.num_agents = 2 /\ pc # "ValueError"
    /\ cfg.virus_spread_chance = One /\ cfg.death_chance = 0
    /\ \A a \in DOMAIN agents : ~agents[a].movable
    /\ agents[1].pos \in get_neighborhood(cfg, agents[0].pos)
    /\ data[1].Infected = 1 /\ data[1].Susceptible = 1

\* No agent that starts with infected_eta 0 can recover in its first tick.
NoRecoveryInFirstTick(c) ==
    \/ c.virus_check_frequency = 0
    \/ c.recovery_chance = 0
    \/ c.min_infection_duration >= 1

\* C11 as stated: in Scenario B both agents are INFECTED after one tick,
\* whatever the other parameters are.
C11_ScenarioB_AnyParameters ==
    ScenarioB /\ Len(data) >= 2 => data[2].Infected = 2

\* C11 amended: in Scenario B, when no recovery can take place in the first
\* tick, both agents are INFECTED after one tick, for every activation
\* order.
C11_ScenarioB ==
    /\ ScenarioB /\ NoRecoveryInFirstTick(cfg) /\ Len(data) >= 2
         => data[2] = [Infected |-> 2, Susceptible |-> 0, Resistant |-> 0,
                       Dead |-> 0, Total_cases |-> 2]
    /\ ScenarioB /\ NoRecoveryInFirstTick(cfg) /\ pc = "run" /\ i = 1
         => \A a \in DOMAIN agents : agents[a].state = INFECTED

\* The infector was activated first and the agent it infected ran its own
\* progression in the same pass, in different cells.
C11_Witness ==
    /\ ScenarioB /\ NoRecoveryInFirstTick(cfg) /\ pc = "run" /\ i = 1
    /\ agents[0].pos # agents[1].pos
    /\ \A a \in DOMAIN agents : agents[a].state = INFECTED /\ agents[a].infected_eta = 1

ScenarioC(c) ==
    /\ c.min_infection_duration = 0 /\ c.virus_check_frequency = One
    /\ c.recovery_chance = One /\ c.gain_resistance_chance = 0

\* C12: in Scenario C an INFECTED agent that does not die in its tick has its
\* infected_eta incremented (from 0 to 1) and is SUSCEPTIBLE when its step()
\* returns; with gain_resistance_chance 0 no agent is ever RESISTANT.
C12_ScenarioC ==
    /\ [][InAgentStep /\ ScenarioC(cfg) /\ agents[Acting].state = INFECTED
             /\ ~last'.died
          => /\ agents'[Acting].state = SUSCEPTIBLE
             /\ agents'[Acting].infected_eta = agents[Acting].infected_eta + 1
             /\ (agents[Acting].infected_eta = 0
                   => agents'[Acting].infected_eta = 1)]_vars
    /\ [](cfg.gain_resistance_chance = 0 => Count(RESISTANT) = 0)

\* In Scenario C an agent that began its first infected tick survived it
\* and is SUSCEPTIBLE, beside a second agent.
C12_Witness ==
    /\ ScenarioC(cfg) /\ cfg.num_agents = 2
    /\ last.id # -1 /\ last.state = INFECTED /\ ~last.died
    /\ agents[last.id].state = SUSCEPTIBLE /\ agents[last.id].infected_eta = 1

\* C13: across every step the only state changes are SUSCEPTIBLE -> INFECTED
\* of a neighbour of the INFECTED agent being activated, and INFECTED ->
\* DEAD, SUSCEPTIBLE or RESISTANT of the agent being activated; an agent
\* activated while not INFECTED keeps its state and its infected_eta.
C13_Transitions ==
    [][\A b \in DOMAIN agents :
          /\ agents'[b].state # agents[b].state
                => /\ InAgentStep
                   /\ \/ /\ agents[b].state = SUSCEPTIBLE
                         /\ agents'[b].state = INFECTED
                         /\ b # Acting
                         /\ agents[Acting].state = INFECTED
                         /\ agents[b].pos \in get_neighborhood(cfg, agents'[Acting].pos)
                      \/ /\ agents[b].state = INFECTED
                         /\ agents'[b].state \in {DEAD, SUSCEPTIBLE, RESISTANT}
                         /\ b = Acting
          /\ InAgentStep /\ b = Acting /\ agents[b].state # INFECTED
                => /\ agents'[b].state = agents[b].state
                   /\ agents'[b].infected_eta = agents[b].infected_eta]_vars

\* A SUSCEPTIBLE agent was activated beside an agent that has been INFECTED
\* for a tick, and is still SUSCEPTIBLE.
C13_Witness ==
    /\ last.id # -1 /\ last.state = SUSCEPTIBLE
    /\ agents[last.id].state = SUSCEPTIBLE
    /\ \E b \in DOMAIN agents :
          /\ agents[b].state = INFECTED /\ agents[b].infected_eta >= 1
          /\ agents[b].pos \in get_neighborhood(cfg, agents[last.id].pos)

\* C14: an agent leaves INFECTED for SUSCEPTIBLE or RESISTANT only in a tick
\* that is more than min_infection_duration ticks into its current
\* infection, the tick of the recovery included, also when it was infected
\* before.
C14_MinimumDurationPerEpisode ==
    [][\A a \in DOMAIN agents :
          agents[a].state = INFECTED /\ agents'[a].state \in {SUSCEPTIBLE, RESISTANT}
             => episode'[a] > cfg.min_infection_duration]_vars

\* C15: in a tick in which the agent's infected_eta after the increment is
\* at most min_infection_duration the agent does not recover: it is
\* INFECTED or DEAD when its step() returns, whatever the draws.
C15_RecoveryGuard ==
    [][(InAgentStep /\ agents[Acting].state = INFECTED
          /\ agents[Acting].infected_eta + 1 <= cfg.min_infection_duration)
         => /\ agents'[Acting].state \in {INFECTED, DEAD}
            /\ agents'[Acting].infected_eta = agents[Acting].infected_eta + 1]_vars

\* An agent's check-in succeeded in the tick that brought its infected_eta
\* to min_infection_duration, and it is still INFECTED.
C15_Witness ==
    /\ last.id # -1 /\ last.state = INFECTED /\ last.checked /\ ~last.died
    /\ cfg.min_infection_duration = 1 /\ cfg.recovery_chance > 0
    /\ agents[last.id].infected_eta = 1
    /\ agents[last.id].state = INFECTED

\* C16: infected_eta is 0 after construction and equals the number of the
\* agent's own ticks that it began INFECTED: each such tick adds exactly 1,
\* and no other step changes it.
C16_EtaCountsInfectedTicks ==
    /\ [](pc = "ready" => \A a \in DOMAIN agents : agents[a].infected_eta = 0)
    /\ [](\A a \in DOMAIN agents : agents[a].infected_eta = infticks[a])
    /\ [][\A a \in DOMAIN agents :
            agents'[a].infected_eta =
                agents[a].infected_eta
                  + (IF InAgentStep /\ a = Acting /\ agents[a].state = INFECTED
                     THEN 1 ELSE 0)]_vars

\* After two ticks one agent died in its first infected tick and the other
\* has recovered in its second.
C16_Witness ==
    /\ pc = "done" /\ n = 2
    /\ \E a \in DOMAIN agents, b \in DOMAIN agents :
          /\ agents[a].state = SUSCEPTIBLE /\ agents[a].infected_eta = 2
          /\ agents[b].state = DEAD /\ agents[b].infected_eta = 1

\* C17: a step() in which the survival check fails changes no other agent
\* and returns with the agent DEAD.
C17_DeadInfectsNobody ==
    [][(InAgentStep /\ last'.died)
         => /\ agents[Acting].state = INFECTED
            /\ agents'[Acting].state = DEAD
            /\ \A b \in DOMAIN agents \ {Acting} : agents'[b] = agents[b]]_vars

\* An agent died beside a SUSCEPTIBLE neighbour, in a tick whose check-in
\* draw succeeded.
C17_Witness ==
    /\ last.id # -1 /\ last.died /\ last.checked
    /\ agents[last.id].state = DEAD
    /\ \E b \in DOMAIN agents \ {last.id} :
          /\ agents[b].state = SUSCEPTIBLE
          /\ agents[b].pos \in get_neighborhood(cfg, agents[last.id].pos)

\* C18: during a pass, an agent activated while INFECTED has run the
\* progression once (infected_eta one more than when the pass began), also
\* when it was infected earlier in that pass; an agent not yet activated, or
\* activated while not INFECTED, has its infected_eta of the start of the
\* pass, and one infected after its own activation stays INFECTED, untouched,
\* until the pass ends.
C18_IntraPassVisibility ==
    pc = "pass" =>
        \A a \in DOMAIN agents :
            /\ passlog[a].acted = INFECTED
                  => agents[a].infected_eta = passlog[a].eta + 1
            /\ passlog[a].acted # INFECTED
                  => agents[a].infected_eta = passlog[a].eta
            /\ (passlog[a].by # -1 /\ passlog[a].state = SUSCEPTIBLE
                   /\ passlog[a].acted = SUSCEPTIBLE)
                  => agents[a].state = INFECTED
            /\ (passlog[a].by # -1 /\ passlog[a].acted = "NONE")
                  => agents[a].state = INFECTED

\* One pass in which the first agent infected the second, the second the
\* third, and the third died; and the second has checked in and recovered.
C18_Witness ==
    /\ pc = "pass" /\ queue = <<>>
    /\ \E x \in DOMAIN agents, y \in DOMAIN agents, z \in DOMAIN agents :
          /\ passlog[x].state = INFECTED
          /\ passlog[y].state = SUSCEPTIBLE /\ passlog[y].by = x
          /\ passlog[y].acted = INFECTED
          /\ agents[y].state \in {SUSCEPTIBLE, RESISTANT}
          /\ passlog[z].state = SUSCEPTIBLE /\ passlog[z].by = y
          /\ passlog[z].acted = INFECTED
          /\ agents[z].state = DEAD /\ agents[z].infected_eta = 1
          /\ agents[x].pos # agents[y].pos /\ agents[y].pos # agents[z].pos

\* C19: on a grid at least 3 cells wide and high, an agent's step() changes
\* the state of another agent only if that agent is in one of the 8 cells
\* around the cell the acting agent has moved to, never in that cell itself
\* and never farther away.
C19_InfectionCrossesCells ==
    [][(InAgentStep /\ grid_width(cfg) >= 3 /\ grid_height(cfg) >= 3)
         => \A b \in DOMAIN agents \ {Acting} :
               agents'[b].state # agents[b].state
                  => /\ agents[b].pos # agents'[Acting].pos
                     /\ \E dx \in -1..1, dy \in -1..1 :
                           agents[b].pos =
                              <<(agents'[Acting].pos[1] + dx) % grid_width(cfg),
                                (agents'[Acting].pos[2] + dy) % grid_height(cfg)>>]_vars

\* With virus_spread_chance 1.0, an INFECTED agent moved onto the cell of a
\* SUSCEPTIBLE agent, survived, and the other agent is still SUSCEPTIBLE.
C19_Witness ==
    /\ grid_width(cfg) >= 3 /\ grid_height(cfg) >= 3
    /\ cfg.virus_spread_chance = One
    /\ last.id # -1 /\ last.state = INFECTED /\ ~last.died
    /\ agents[last.id].movable
    /\ \E b \in DOMAIN agents \ {last.id} :
          /\ agents[b].pos = agents[last.id].pos
          /\ agents[b].state = SUSCEPTIBLE /\ agents[b].infected_eta = 0

\* C20: the Total cases value of a snapshot is never below that of the
\* snapshot before it.
C20_TotalCasesCumulative ==
    \A k \in DOMAIN data :
        k + 1 \in DOMAIN data => data[k + 1].Total_cases >= data[k].Total_cases

====
